---- MODULE Spec2Model ----
(***************************************************************************)
(* A model of kiara_modules/network_analysis/utils.py:                     *)
(*   - insert_table_data_into_network_graph  (specification SpecInsert)    *)
(*   - NetworkDataTabularWrap.slice          (specification SpecSlice)     *)
(*   - extract_nodes_as_table                (specification SpecNodes)     *)
(*   - extract_edges_as_table                (specification SpecEdges)     *)
(*   - parse_graphml_file and convert_graphml_type_to_sqlite               *)
(*                            (specifications SpecParse and SpecSchema)    *)
(* Python dicts keep insertion order; they are modelled as sequences of    *)
(* <<key, value>> pairs with distinct keys.                                *)
(***************************************************************************)
EXTENDS Integers, Sequences, FiniteSets, TLC

VARIABLES
    \* insert_table_data_into_network_graph
    nodes_table, nodes_schema, edges_table, edges_schema, chunk_size,
    pc, nb, eb, added_node_ids, node_calls, edge_calls, error,
    \* NetworkDataTabularWrap.slice
    db_rows, slice_call, slice_result,
    \* extract_nodes_as_table / extract_edges_as_table
    graph, extracted,
    \* parse_graphml_file
    ppc, keys_read, node_map, edge_map, node_props, edge_props,
    node_props_sorted, edge_props_sorted, g, returned, parse_error

insertVars == <<nodes_table, nodes_schema, edges_table, edges_schema, chunk_size,
                pc, nb, eb, added_node_ids, node_calls, edge_calls, error>>
sliceVars == <<db_rows, slice_call, slice_result>>
extractVars == <<graph, extracted>>
parseVars == <<ppc, keys_read, node_map, edge_map, node_props, edge_props,
               node_props_sorted, edge_props_sorted, g, returned, parse_error>>
vars == <<insertVars, sliceVars, extractVars, parseVars>>

\* ------------------------------------------------------------------ bounds
MaxRows == 2
MaxChunk == 2

\* ------------------------------------------------- reserved column names
ID_COLUMN_NAME == "id"
LABEL_COLUMN_NAME == "label"
SOURCE_COLUMN_NAME == "source"
TARGET_COLUMN_NAME == "target"

\* ------------------------------------------------------ insertion-ordered dicts
KeySet(d) == {d[i][1] : i \in 1..Len(d)}
KeyList(d) == [i \in 1..Len(d) |-> d[i][1]]
Has(d, k) == k \in KeySet(d)
Get(d, k) == d[CHOOSE i \in 1..Len(d) : d[i][1] = k][2]
Pop(d, k) == SelectSeq(d, LAMBDA e : e[1] # k)
Put(d, k, x) ==
    IF Has(d, k)
    THEN [i \in 1..Len(d) |-> IF d[i][1] = k THEN <<k, x>> ELSE d[i]]
    ELSE Append(d, <<k, x>>)

Min(a, b) == IF a < b THEN a ELSE b

\* A table is a dict column name -> list of values, all lists of one length.
NumRows(table) == IF Len(table) = 0 THEN 0 ELSE Len(table[1][2])

\* pa.Table.to_batches(chunk_size): consecutive slices of at most chunk_size
\* rows, in table order; a table without rows yields no batch.
NumBatches(table, size) == (NumRows(table) + size - 1) \div size
BatchRows(table, size, k) ==
    ((k - 1) * size + 1) .. Min(k * size, NumRows(table))
to_batches(table, size, k) ==
    [c \in 1..Len(table) |->
        <<table[c][1],
          SubSeq(table[c][2], (k - 1) * size + 1, Min(k * size, NumRows(table)))>>]

\* A conversion that loses the last row of the batch.
to_records_short(batch_dict) ==
    [r \in 1..(NumRows(batch_dict) - 1) |->
        [c \in 1..Len(batch_dict) |-> <<batch_dict[c][1], batch_dict[c][2][r]>>]]

\* data = [dict(zip(batch_dict, t)) for t in zip(*batch_dict.values())]
to_records(batch_dict) ==
    [r \in 1..NumRows(batch_dict) |->
        [c \in 1..Len(batch_dict) |-> <<batch_dict[c][1], batch_dict[c][2][r]>>]]

\* `if k == ID_COLUMN_NAME and v == LABEL_COLUMN_NAME`
IsIdentityCopy(k, v) == k = ID_COLUMN_NAME /\ v = LABEL_COLUMN_NAME

\* A `get` where the code pops: the source column stays.
keep_column(batch_dict, k) == batch_dict

\* `batch_dict.pop(k)`: the dict without column k
pop_column(batch_dict, k) == Pop(batch_dict, k)

\* The nodes loop `for k, v in column_map.items()`, from entry i on.
RECURSIVE apply_nodes_column_map(_, _, _)
apply_nodes_column_map(batch_dict, column_map, i) ==
    IF i > Len(column_map)
    THEN [error |-> "", batch_dict |-> batch_dict]
    ELSE LET k == column_map[i][1]
             v == column_map[i][2]
         IN  IF ~Has(batch_dict, k)
             THEN apply_nodes_column_map(batch_dict, column_map, i + 1)
             ELSE IF IsIdentityCopy(k, v)
             THEN apply_nodes_column_map(
                      Put(batch_dict, v, Get(batch_dict, k)), column_map, i + 1)
             ELSE LET data == Get(batch_dict, k)
                      popped == pop_column(batch_dict, k)
                  IN  IF Has(popped, v)
                      THEN [error |-> "DuplicateNodes", batch_dict |-> popped]
                      ELSE apply_nodes_column_map(
                               Put(popped, v, data), column_map, i + 1)

\* The edges loop `for k, v in column_map.items()`, from entry i on.
RECURSIVE apply_edges_column_map(_, _, _)
apply_edges_column_map(batch_dict, column_map, i) ==
    IF i > Len(column_map)
    THEN [error |-> "", batch_dict |-> batch_dict]
    ELSE LET k == column_map[i][1]
             v == column_map[i][2]
         IN  IF ~Has(batch_dict, k)
             THEN apply_edges_column_map(batch_dict, column_map, i + 1)
             ELSE LET data == Get(batch_dict, k)
                      popped == pop_column(batch_dict, k)
                  IN  IF Has(popped, v)
                      THEN [error |-> "DuplicateEdges", batch_dict |-> popped]
                      ELSE apply_edges_column_map(
                               Put(popped, v, data), column_map, i + 1)

\* An assignment where the code updates: the set is reset by every batch.
reset_added_node_ids(added, ids) == ids

\* `added_node_ids.update(ids)`
update_added_node_ids(added, ids) == added \cup ids

\* A handler that swallows the error: the loop goes on.
swallow_exception(phase) == phase

\* `raise Exception(...)`: the call ends, whatever loop it was in
raise_exception(phase) == "error"

SeqToSet(s) == {s[i] : i \in 1..Len(s)}

\* The store: insert_edges(*records, existing_node_ids) reports the endpoint
\* identifiers it had to create, those not among existing_node_ids.
Endpoints(records) ==
    UNION {{rec[c][2] : c \in {c \in 1..Len(rec) :
                rec[c][1] \in {SOURCE_COLUMN_NAME, TARGET_COLUMN_NAME}}} :
           rec \in SeqToSet(records)}
insert_edges(records, existing_node_ids) ==
    Endpoints(records) \ existing_node_ids

\* ------------------------------------------------------------ the inputs
NodeColumns == <<ID_COLUMN_NAME, LABEL_COLUMN_NAME, "name">>
EdgeColumns == <<SOURCE_COLUMN_NAME, TARGET_COLUMN_NAME, "weight">>

\* Cell values: identifiers are the row numbers; every other column has
\* values of its own.
NodeCell(col, r) ==
    IF col = ID_COLUMN_NAME THEN r
    ELSE IF col = LABEL_COLUMN_NAME THEN 10 + r ELSE 20 + r
EdgeCell(col, r) ==
    IF col = SOURCE_COLUMN_NAME THEN r
    ELSE IF col = TARGET_COLUMN_NAME THEN r + 1 ELSE 30 + r

\* The non-empty column selections of `names`, in the order of `names`.
ColumnLists(names) ==
    {cs \in UNION {[1..n -> 1..Len(names)] : n \in 1..Len(names)} :
        \A i \in 1..(Len(cs) - 1) : cs[i] < cs[i + 1]}

NodeTables ==
    {[c \in 1..Len(cs) |->
        <<NodeColumns[cs[c]], [r \in 1..rows |-> NodeCell(NodeColumns[cs[c]], r)]>>] :
     cs \in ColumnLists(NodeColumns), rows \in 0..MaxRows}
EdgeTables ==
    {[c \in 1..Len(cs) |->
        <<EdgeColumns[cs[c]], [r \in 1..rows |-> EdgeCell(EdgeColumns[cs[c]], r)]>>] :
     cs \in ColumnLists(EdgeColumns), rows \in 0..MaxRows}

\* Names a column_map may rename to: the table's columns and one more.
NodeTargets == SeqToSet(NodeColumns) \cup {"title"}
EdgeTargets == SeqToSet(EdgeColumns) \cup {"kind"}

\* A column_map: a dict source column -> target column, in any entry order.
ColumnMaps(sources, targets) ==
    {m \in UNION {[1..n -> {p \in sources \X targets : p[1] # p[2]}] :
                     n \in 0..Cardinality(sources)} :
        \A i, j \in 1..Len(m) : i # j => m[i][1] # m[j][1]}

\* Tables already in the target shape, with no column mapping.
PlainNodeTables ==
    {t \in NodeTables : KeyList(t) = <<ID_COLUMN_NAME>> /\ NumRows(t) = MaxRows}
PlainEdgeTables ==
    {t \in EdgeTables : /\ KeyList(t) = <<SOURCE_COLUMN_NAME, TARGET_COLUMN_NAME>>
                        /\ NumRows(t) = MaxRows}

NoTable == [is_none |-> TRUE, data |-> <<>>]
Given(t) == [is_none |-> FALSE, data |-> t]

Unused == "unused"
SliceIdle == db_rows = Unused /\ slice_call = Unused /\ slice_result = Unused
ExtractIdle == graph = Unused /\ extracted = Unused
ParseIdle ==
    /\ ppc = Unused /\ keys_read = Unused
    /\ node_map = Unused /\ edge_map = Unused
    /\ node_props = Unused /\ edge_props = Unused
    /\ node_props_sorted = Unused /\ edge_props_sorted = Unused
    /\ g = Unused /\ returned = Unused /\ parse_error = Unused
InsertIdle ==
    /\ nodes_table = Unused /\ nodes_schema = Unused
    /\ edges_table = Unused /\ edges_schema = Unused /\ chunk_size = Unused
    /\ pc = Unused /\ nb = Unused /\ eb = Unused /\ added_node_ids = Unused
    /\ node_calls = Unused /\ edge_calls = Unused /\ error = Unused

\* ----------------------------- insert_table_data_into_network_graph
\* The two loops share added_node_ids only, so the inputs vary one side of
\* the call at a time.
InitInsert ==
    /\ \/ /\ nodes_table \in {NoTable} \cup {Given(t) : t \in NodeTables}
          /\ nodes_schema \in ColumnMaps(SeqToSet(NodeColumns), NodeTargets)
          /\ edges_table \in {Given(t) : t \in PlainEdgeTables}
          /\ edges_schema = <<>>
       \/ /\ nodes_table \in {NoTable} \cup {Given(t) : t \in PlainNodeTables}
          /\ nodes_schema = <<>>
          /\ edges_table \in {Given(t) : t \in EdgeTables}
          /\ edges_schema \in ColumnMaps(SeqToSet(EdgeColumns), EdgeTargets)
    /\ chunk_size \in 1..MaxChunk
    /\ pc = "nodes"
    /\ nb = 0
    /\ eb = 0
    /\ added_node_ids = {}
    /\ node_calls = <<>>
    /\ edge_calls = <<>>
    /\ error = ""
    /\ SliceIdle /\ ExtractIdle /\ ParseIdle

inputVars == <<nodes_table, nodes_schema, edges_table, edges_schema, chunk_size>>

MoreNodeBatches ==
    /\ ~nodes_table.is_none
    /\ nb < NumBatches(nodes_table.data, chunk_size)

MappedNodeBatch ==
    apply_nodes_column_map(
        to_batches(nodes_table.data, chunk_size, nb + 1), nodes_schema, 1)

\* One pass of the nodes loop that ends in the duplicate-column raise.
NodeBatchDuplicate ==
    /\ pc = "nodes" /\ MoreNodeBatches
    /\ MappedNodeBatch.error # ""
    /\ nb' = nb + 1
    /\ error' = MappedNodeBatch.error
    /\ pc' = raise_exception(pc)
    /\ UNCHANGED <<inputVars, eb, added_node_ids, node_calls, edge_calls>>
    /\ UNCHANGED <<sliceVars, extractVars, parseVars>>

\* One pass of the nodes loop in which `batch_dict[ID_COLUMN_NAME]` fails.
NodeBatchKeyError ==
    /\ pc = "nodes" /\ MoreNodeBatches
    /\ MappedNodeBatch.error = ""
    /\ ~Has(MappedNodeBatch.batch_dict, ID_COLUMN_NAME)
    /\ nb' = nb + 1
    /\ error' = "KeyError"
    /\ pc' = raise_exception(pc)
    /\ UNCHANGED <<inputVars, eb, added_node_ids, node_calls, edge_calls>>
    /\ UNCHANGED <<sliceVars, extractVars, parseVars>>

\* One pass of the nodes loop that reaches insert_nodes.
NodeBatchInsert ==
    /\ pc = "nodes" /\ MoreNodeBatches
    /\ MappedNodeBatch.error = ""
    /\ Has(MappedNodeBatch.batch_dict, ID_COLUMN_NAME)
    /\ LET batch_dict == MappedNodeBatch.batch_dict
           ids == Get(batch_dict, ID_COLUMN_NAME)
       IN  /\ node_calls' = Append(node_calls, to_records(batch_dict))
           /\ added_node_ids' = update_added_node_ids(added_node_ids, SeqToSet(ids))
    /\ nb' = nb + 1
    /\ UNCHANGED <<inputVars, pc, eb, edge_calls, error>>
    /\ UNCHANGED <<sliceVars, extractVars, parseVars>>

\* The nodes loop is over (or there is no nodes table).
NodesDone ==
    /\ pc = "nodes" /\ ~MoreNodeBatches
    /\ pc' = "edges"
    /\ UNCHANGED <<inputVars, nb, eb, added_node_ids, node_calls, edge_calls, error>>
    /\ UNCHANGED <<sliceVars, extractVars, parseVars>>

MoreEdgeBatches == eb < NumBatches(edges_table.data, chunk_size)

MappedEdgeBatch ==
    apply_edges_column_map(
        to_batches(edges_table.data, chunk_size, eb + 1), edges_schema, 1)

\* One pass of the edges loop that ends in the duplicate-column raise.
EdgeBatchDuplicate ==
    /\ pc = "edges" /\ MoreEdgeBatches
    /\ MappedEdgeBatch.error # ""
    /\ eb' = eb + 1
    /\ error' = MappedEdgeBatch.error
    /\ pc' = raise_exception(pc)
    /\ UNCHANGED <<inputVars, nb, added_node_ids, node_calls, edge_calls>>
    /\ UNCHANGED <<sliceVars, extractVars, parseVars>>

\* One pass of the edges loop that reaches insert_edges.
EdgeBatchInsert ==
    /\ pc = "edges" /\ MoreEdgeBatches
    /\ MappedEdgeBatch.error = ""
    /\ LET data == to_records(MappedEdgeBatch.batch_dict)
           all_node_ids == insert_edges(data, added_node_ids)
       IN  /\ edge_calls' = Append(edge_calls,
                   [data |-> data, existing_node_ids |-> added_node_ids,
                    all_node_ids |-> all_node_ids])
           /\ added_node_ids' = update_added_node_ids(added_node_ids, all_node_ids)
    /\ eb' = eb + 1
    /\ UNCHANGED <<inputVars, pc, nb, node_calls, error>>
    /\ UNCHANGED <<sliceVars, extractVars, parseVars>>

\* The edges loop is over: the function returns.
EdgesDone ==
    /\ pc = "edges" /\ ~MoreEdgeBatches
    /\ pc' = "done"
    /\ UNCHANGED <<inputVars, nb, eb, added_node_ids, node_calls, edge_calls, error>>
    /\ UNCHANGED <<sliceVars, extractVars, parseVars>>

NextInsert ==
    \/ NodeBatchDuplicate
    \/ NodeBatchKeyError
    \/ NodeBatchInsert
    \/ NodesDone
    \/ EdgeBatchDuplicate
    \/ EdgeBatchInsert
    \/ EdgesDone

SpecInsert == InitInsert /\ [][NextInsert]_vars

\* ---------------------------------------- NetworkDataTabularWrap.slice
MaxDbRows == 3
MaxOffset == 3
MaxLength == 3

None == [given |-> FALSE, value |-> 0]
Some(n) == [given |-> TRUE, value |-> n]

\* TableType.value -> the columns of that table of the store
TableColumns(table_type) ==
    IF table_type = "nodes"
    THEN <<ID_COLUMN_NAME, LABEL_COLUMN_NAME>>
    ELSE <<SOURCE_COLUMN_NAME, TARGET_COLUMN_NAME>>

\* retrieve_number_of_rows: SELECT count(*)
retrieve_number_of_rows(rows) == Len(rows)

\* Python's truth value of `length`: None and 0 are false.
Truthy(length) == length.given /\ length.value # 0

\* The query text: LIMIT from `length` or from num_rows, OFFSET when > 0.
slice_query(rows, offset, length) ==
    [limit |-> IF Truthy(length) THEN length.value
               ELSE retrieve_number_of_rows(rows),
     offset |-> IF offset > 0 THEN offset ELSE 0]

\* SELECT * ... LIMIT n OFFSET o: skip o rows, then at most n rows.
execute(rows, query) ==
    SubSeq(rows, query.offset + 1, Min(query.offset + query.limit, Len(rows)))

\* The result_dict built from the rows of the cursor.
materialize(column_names, result) ==
    [c \in 1..Len(column_names) |->
        <<column_names[c], [r \in 1..Len(result) |-> result[r][c]]>>]

slice(db, offset, length) ==
    materialize(TableColumns(db.table_type),
                execute(db.rows, slice_query(db.rows, offset, length)))

InitSlice ==
    /\ db_rows \in {[table_type |-> t, rows |-> [r \in 1..n |-> <<r, 10 + r>>]] :
                      t \in {"nodes", "edges"}, n \in 0..MaxDbRows}
    /\ slice_call = [done |-> FALSE, offset |-> 0, length |-> None]
    /\ slice_result = <<>>
    /\ InsertIdle /\ ExtractIdle /\ ParseIdle

Slice ==
    \E offset \in 0..MaxOffset, length \in {None} \cup {Some(n) : n \in 0..MaxLength} :
        /\ slice_call' = [done |-> TRUE, offset |-> offset, length |-> length]
        /\ slice_result' = slice(db_rows, offset, length)
        /\ UNCHANGED <<db_rows, insertVars, extractVars, parseVars>>

NextSlice == Slice

SpecSlice == InitSlice /\ [][NextSlice]_vars

\* C5: slice(offset, length) with a length given, 0 included, returns at
\* most `length` rows, those at positions offset .. offset+length-1 that
\* exist; only with length left out is the limit the row count, giving the
\* rest of the table from offset; all columns have one length.
C5_SliceHonoursLength ==
    slice_call.done =>
        LET R == Len(db_rows.rows)
            last == IF slice_call.length.given
                    THEN Min(slice_call.offset + slice_call.length.value, R)
                    ELSE R
            expected == SubSeq(db_rows.rows, slice_call.offset + 1, last)
        IN  \A c \in 1..Len(slice_result) :
                /\ slice_result[c][2] = [r \in 1..Len(expected) |-> expected[r][c]]
                /\ slice_call.length.given =>
                      Len(slice_result[c][2]) <= slice_call.length.value

\* ------------------------- extract_nodes_as_table, extract_edges_as_table
MaxNodes == 2
MaxEdges == 2

\* float("nan"): the value put where an attribute is missing; no attribute
\* has it.
nan == -1

NodeAttrNames == <<"color", "size", ID_COLUMN_NAME, SOURCE_COLUMN_NAME>>
EdgeAttrNames == <<"weight", "kind", SOURCE_COLUMN_NAME, TARGET_COLUMN_NAME>>

\* The attribute dict d of element n with the attributes named by `ks`.
AttrDict(n, names, ks) ==
    [k \in {names[i] : i \in ks} |->
        10 * n + (CHOOSE i \in 1..Len(names) : names[i] = k)]

Graphs(count, names) ==
    {[i \in 1..count |-> [n |-> i, s |-> i, t |-> i + 1,
                          d |-> AttrDict(i, names, kss[i])]] :
     kss \in [1..count -> SUBSET (1..Len(names))]}

\* A set-intersection where the code takes the union.
all_attrs_common(datalist) ==
    {k \in UNION {DOMAIN datalist[i].d : i \in 1..Len(datalist)} :
        \A i \in 1..Len(datalist) : k \in DOMAIN datalist[i].d}

\* set().union(*(d.keys() for ... in list))
all_attrs(datalist) == UNION {DOMAIN datalist[i].d : i \in 1..Len(datalist)}

\* {k: [d.get(k, nan) for ... in list] for k in all_attrs}
attr_columns(datalist) ==
    [k \in all_attrs(datalist) |->
        [i \in 1..Len(datalist) |->
            IF k \in DOMAIN datalist[i].d THEN datalist[i].d[k] ELSE nan]]

\* dict.update / item assignment: the entries of b replace those of a.
Update(a, b) ==
    [k \in DOMAIN a \cup DOMAIN b |-> IF k \in DOMAIN b THEN b[k] ELSE a[k]]

extract_nodes_as_table(nodelist) ==
    IF ID_COLUMN_NAME \in all_attrs(nodelist)
    THEN [status |-> "NetworkXError", table |-> <<>>]
    ELSE IF SOURCE_COLUMN_NAME \in all_attrs(nodelist)
    THEN [status |-> "NetworkXError", table |-> <<>>]
    ELSE [status |-> "ok",
          table |-> Update(attr_columns(nodelist),
                           [k \in {ID_COLUMN_NAME} |->
                               [i \in 1..Len(nodelist) |-> nodelist[i].n]])]

extract_edges_as_table(edgelist) ==
    IF SOURCE_COLUMN_NAME \in all_attrs(edgelist)
    THEN [status |-> "NetworkXError", table |-> <<>>]
    ELSE IF SOURCE_COLUMN_NAME \in all_attrs(edgelist)
    THEN [status |-> "NetworkXError", table |-> <<>>]
    ELSE [status |-> "ok",
          table |-> Update(
              [k \in {SOURCE_COLUMN_NAME, TARGET_COLUMN_NAME} |->
                  [i \in 1..Len(edgelist) |->
                      IF k = SOURCE_COLUMN_NAME THEN edgelist[i].s
                      ELSE edgelist[i].t]],
              attr_columns(edgelist))]

Pending == [status |-> "pending", table |-> <<>>]

InitNodes ==
    /\ graph \in UNION {Graphs(count, NodeAttrNames) : count \in 0..MaxNodes}
    /\ extracted = Pending
    /\ InsertIdle /\ SliceIdle /\ ParseIdle

ExtractNodes ==
    /\ extracted = Pending
    /\ extracted' = extract_nodes_as_table(graph)
    /\ UNCHANGED <<graph, insertVars, sliceVars, parseVars>>

NextNodes == ExtractNodes

SpecNodes == InitNodes /\ [][NextNodes]_vars

InitEdges ==
    /\ graph \in UNION {Graphs(count, EdgeAttrNames) : count \in 0..MaxEdges}
    /\ extracted = Pending
    /\ InsertIdle /\ SliceIdle /\ ParseIdle

ExtractEdges ==
    /\ extracted = Pending
    /\ extracted' = extract_edges_as_table(graph)
    /\ UNCHANGED <<graph, insertVars, sliceVars, parseVars>>

NextEdges == ExtractEdges

SpecEdges == InitEdges /\ [][NextEdges]_vars

\* C4: extract_edges_as_table fails with a naming-conflict error whenever an
\* edge has an attribute named like the reserved source or target column; no
\* table is returned in which an attribute replaced one of the two.
C4_ReservedEdgeNamesRejected ==
    (/\ extracted # Pending
     /\ \E i \in 1..Len(graph) :
           DOMAIN graph[i].d \cap {SOURCE_COLUMN_NAME, TARGET_COLUMN_NAME} # {})
    => extracted.status = "NetworkXError"

\* C7: for a graph whose node attribute names avoid the reserved names,
\* extract_nodes_as_table returns one row per node, the identifier column and
\* one column per attribute name found on any node, each cell the node's
\* value or the not-a-number placeholder, all columns of one length.
C7_NodesTableRectangular ==
    (/\ extracted # Pending
     /\ \A i \in 1..Len(graph) :
           DOMAIN graph[i].d \cap {ID_COLUMN_NAME, SOURCE_COLUMN_NAME} = {})
    => /\ extracted.status = "ok"
       /\ DOMAIN extracted.table =
             {ID_COLUMN_NAME} \cup UNION {DOMAIN graph[i].d : i \in 1..Len(graph)}
       /\ \A k \in DOMAIN extracted.table :
             /\ Len(extracted.table[k]) = Len(graph)
             /\ \A i \in 1..Len(graph) :
                   extracted.table[k][i] =
                       IF k = ID_COLUMN_NAME THEN graph[i].n
                       ELSE IF k \in DOMAIN graph[i].d THEN graph[i].d[k]
                       ELSE nan

\* Two nodes, the first with the attribute color and the second without:
\* the table has the color column with a value and a placeholder.
C7_Witness ==
    /\ extracted.status = "ok"
    /\ Len(graph) = 2
    /\ DOMAIN graph[1].d = {"color"}
    /\ DOMAIN graph[2].d = {}
    /\ extracted.table["color"][2] = nan
    /\ extracted.table["color"][1] # nan

\* ------------------- parse_graphml_file, convert_graphml_type_to_sqlite
MaxKeys == 2
MaxDocNodes == 1
MaxDocEdges == 1

LookupFailed == "KeyError"

type_map ==
    [t \in {"boolean", "int", "long", "float", "double", "string"} |->
        IF t \in {"boolean", "int", "long"} THEN "INTEGER"
        ELSE IF t \in {"float", "double"} THEN "REAL"
        ELSE "TEXT"]

\* A lookup with a default where the code indexes the dict.
convert_with_default(data_type) ==
    IF data_type \in DOMAIN type_map THEN type_map[data_type] ELSE "TEXT"

\* `return type_map[data_type]`: a KeyError for a type that is no key
convert_graphml_type_to_sqlite(data_type) ==
    IF data_type \in DOMAIN type_map THEN type_map[data_type] ELSE LookupFailed

\* Python's order of strings, on key ids written as "d" and these digits:
\* character by character, a proper prefix first.
RECURSIVE StrLess(_, _)
StrLess(a, b) ==
    IF a = <<>> THEN b # <<>>
    ELSE IF b = <<>> THEN FALSE
    ELSE IF a[1] # b[1] THEN a[1] < b[1]
    ELSE StrLess(Tail(a), Tail(b))

RECURSIVE SortStrings(_)
SortStrings(S) ==
    IF S = {} THEN <<>>
    ELSE LET m == CHOOSE x \in S : \A y \in S \ {x} : StrLess(x, y)
         IN  <<m>> \o SortStrings(S \ {m})

\* The keys in the order the <key> elements set them, where the code sorts.
insertion_order_keys(id_map) == KeyList(id_map)

\* sorted(node_map.keys())
sorted_keys(id_map) == SortStrings(KeySet(id_map))

\* for key in sorted(id_map.keys()): sorted[id_map[key]] = props[id_map[key]]
RECURSIVE props_sorted(_, _, _, _)
props_sorted(ids, id_map, props, acc) ==
    IF ids = <<>> THEN acc
    ELSE props_sorted(Tail(ids), id_map, props,
             Put(acc, Get(id_map, ids[1]), Get(props, Get(id_map, ids[1]))))

\* The <key> elements a document may hold: id "d1", "d2" or "d10".
KeyIds == {<<1>>, <<2>>, <<1, 0>>}
AttrTypes == DOMAIN type_map \cup {"date"}
TypedKeys ==
    {[id |-> <<1>>, name |-> n, for |-> f, type |-> t] :
        n \in {"a", "b"}, f \in {"node", "edge"}, t \in AttrTypes}
SchemaKeys ==
    {[id |-> i, name |-> n, for |-> f, type |-> "string"] :
        i \in KeyIds, n \in {"a", "b"}, f \in {"node", "edge", "graph"}}

InitParse ==
    /\ ppc = "keys"
    /\ keys_read = <<>>
    /\ node_map = <<>> /\ edge_map = <<>>
    /\ node_props = <<>> /\ edge_props = <<>>
    /\ node_props_sorted = <<>> /\ edge_props_sorted = <<>>
    /\ g = [nodes |-> 0, edges |-> 0]
    /\ returned = <<>>
    /\ parse_error = ""
    /\ InsertIdle /\ SliceIdle /\ ExtractIdle

\* One pass of `for attr in root.getElementsByTagName("key")`.
ScanKey(choices) ==
    /\ ppc = "keys"
    /\ Len(keys_read) < MaxKeys
    /\ \E attr \in choices :
        LET data_type == convert_graphml_type_to_sqlite(attr.type) IN
        /\ keys_read' = Append(keys_read, attr)
        /\ IF data_type = LookupFailed
           THEN /\ parse_error' = LookupFailed
                /\ ppc' = "error"
                /\ IF attr.for = "edge"
                   THEN /\ edge_map' = Put(edge_map, attr.id, attr.name)
                        /\ UNCHANGED node_map
                   ELSE /\ node_map' = Put(node_map, attr.id, attr.name)
                        /\ UNCHANGED edge_map
                /\ UNCHANGED <<node_props, edge_props>>
           ELSE /\ UNCHANGED <<parse_error, ppc>>
                /\ IF attr.for = "edge"
                   THEN /\ edge_map' = Put(edge_map, attr.id, attr.name)
                        /\ edge_props' = Put(edge_props, attr.name,
                                             [data_type |-> data_type])
                        /\ UNCHANGED <<node_map, node_props>>
                   ELSE /\ node_map' = Put(node_map, attr.id, attr.name)
                        /\ node_props' = Put(node_props, attr.name,
                                             [data_type |-> data_type])
                        /\ UNCHANGED <<edge_map, edge_props>>
    /\ UNCHANGED <<node_props_sorted, edge_props_sorted, g, returned>>
    /\ UNCHANGED <<insertVars, sliceVars, extractVars>>

\* The <key> loop is over: both schemas are built in key id order.
SortSchemas ==
    /\ ppc = "keys"
    /\ node_props_sorted' =
           props_sorted(sorted_keys(node_map), node_map, node_props, <<>>)
    /\ edge_props_sorted' =
           props_sorted(sorted_keys(edge_map), edge_map, edge_props, <<>>)
    /\ ppc' = "nodes"
    /\ UNCHANGED <<keys_read, node_map, edge_map, node_props, edge_props,
                   g, returned, parse_error>>
    /\ UNCHANGED <<insertVars, sliceVars, extractVars>>

\* One pass of `for node in graph.getElementsByTagName("node")`.
AddNode ==
    /\ ppc = "nodes"
    /\ g.nodes < MaxDocNodes
    /\ g' = [g EXCEPT !.nodes = @ + 1]
    /\ UNCHANGED <<ppc, keys_read, node_map, edge_map, node_props, edge_props,
                   node_props_sorted, edge_props_sorted, returned, parse_error>>
    /\ UNCHANGED <<insertVars, sliceVars, extractVars>>

NodesRead ==
    /\ ppc = "nodes"
    /\ ppc' = "edges"
    /\ UNCHANGED <<keys_read, node_map, edge_map, node_props, edge_props,
                   node_props_sorted, edge_props_sorted, g, returned, parse_error>>
    /\ UNCHANGED <<insertVars, sliceVars, extractVars>>

\* One pass of `for edge in graph.getElementsByTagName("edge")`, between
\* nodes of the graph.
AddEdge ==
    /\ ppc = "edges"
    /\ g.nodes > 0
    /\ g.edges < MaxDocEdges
    /\ g' = [g EXCEPT !.edges = @ + 1]
    /\ UNCHANGED <<ppc, keys_read, node_map, edge_map, node_props, edge_props,
                   node_props_sorted, edge_props_sorted, returned, parse_error>>
    /\ UNCHANGED <<insertVars, sliceVars, extractVars>>

\* `return (g, edge_props_sorted, node_props_sorted)`
Return ==
    /\ ppc = "edges"
    /\ returned' = <<g, edge_props_sorted, node_props_sorted>>
    /\ ppc' = "done"
    /\ UNCHANGED <<keys_read, node_map, edge_map, node_props, edge_props,
                   node_props_sorted, edge_props_sorted, g, parse_error>>
    /\ UNCHANGED <<insertVars, sliceVars, extractVars>>

\* Documents whose keys take every attr.type.
NextParse ==
    \/ ScanKey(TypedKeys)
    \/ SortSchemas
    \/ AddNode
    \/ NodesRead
    \/ AddEdge
    \/ Return

SpecParse == InitParse /\ [][NextParse]_vars

\* Documents whose keys take every id and every `for`.
NextSchema ==
    \/ ScanKey(SchemaKeys)
    \/ SortSchemas
    \/ AddNode
    \/ NodesRead
    \/ AddEdge
    \/ Return

SpecSchema == InitParse /\ [][NextSchema]_vars

\* The keys read so far that declare edge / node attributes.
KeysFor(edge) ==
    {i \in 1..Len(keys_read) : (keys_read[i].for = "edge") = edge}
NamesFor(edge) == {keys_read[i].name : i \in KeysFor(edge)}
\* The least id, in the order of strings, of the keys declaring `name`.
FirstIdOf(edge, name) ==
    CHOOSE x \in {keys_read[i].id : i \in {j \in KeysFor(edge) : keys_read[j].name = name}} :
        \A i \in KeysFor(edge) :
            keys_read[i].name = name =>
                (keys_read[i].id = x \/ StrLess(x, keys_read[i].id))
SchemaInIdOrder(schema, edge) ==
    /\ KeySet(schema) = NamesFor(edge)
    /\ \A i, j \in 1..Len(schema) :
          i < j => StrLess(FirstIdOf(edge, schema[i][1]), FirstIdOf(edge, schema[j][1]))
UniqueKeyIds ==
    \A i, j \in 1..Len(keys_read) :
        (i # j /\ (keys_read[i].for = "edge") = (keys_read[j].for = "edge"))
            => keys_read[i].id # keys_read[j].id

\* C6 as stated: every <key> for "edge" gives its name to the edge schema
\* and every other <key> to the node schema, each schema in the ascending
\* order of the ids of the keys that declared its names.
C6_Original ==
    ppc = "done" =>
        /\ SchemaInIdOrder(returned[2], TRUE)
        /\ SchemaInIdOrder(returned[3], FALSE)

\* C6, amended: when no two <key> elements of the same scope (edge, or
\* anything else) share an id, every <key> for "edge" gives its name to
\* the edge schema and every other <key> to the node schema, each schema in
\* the ascending (string) order of the ids of the keys that declared its
\* names.
C6_SchemasInKeyIdOrder ==
    (ppc = "done" /\ UniqueKeyIds) =>
        /\ SchemaInIdOrder(returned[2], TRUE)
        /\ SchemaInIdOrder(returned[3], FALSE)

\* Two node keys declared "d2" before "d10": the node schema lists the name
\* of "d10" first.
C6_Witness ==
    /\ ppc = "done"
    /\ Len(keys_read) = 2
    /\ keys_read[1].id = <<2>> /\ keys_read[2].id = <<1, 0>>
    /\ keys_read[1].for = "node" /\ keys_read[2].for = "graph"
    /\ keys_read[1].name = "a" /\ keys_read[2].name = "b"
    /\ KeyList(returned[3]) = <<"b", "a">>

Documented(t) ==
    CASE t \in {"boolean", "int", "long"} -> "INTEGER"
      [] t \in {"float", "double"} -> "REAL"
      [] t = "string" -> "TEXT"
      [] OTHER -> "none"
LastKey == keys_read[Len(keys_read)]

\* C8: boolean, int and long map to INTEGER, float and double to REAL,
\* string to TEXT, anything else is a lookup error; a <key> of an
\* unrecognized attr.type fails the parse before a node or an edge is added
\* and nothing is returned.
C8_TypeMapping ==
    keys_read # <<>> =>
        /\ Documented(LastKey.type) # "none" =>
              /\ parse_error = ""
              /\ Get(IF LastKey.for = "edge" THEN edge_props ELSE node_props,
                     LastKey.name).data_type = Documented(LastKey.type)
        /\ Documented(LastKey.type) = "none" =>
              /\ parse_error = LookupFailed
              /\ ppc = "error"
              /\ g = [nodes |-> 0, edges |-> 0]
              /\ returned = <<>>

\* A key of an unrecognized type was read after a recognized one: the parse
\* has failed.
C8_Witness ==
    /\ Len(keys_read) = 2
    /\ keys_read[1].type = "long"
    /\ keys_read[2].type = "date"
    /\ parse_error = LookupFailed

\* ------------------------------------------- properties of the insertion
Sources(m) == {m[i][1] : i \in 1..Len(m)}
Targets(m) == {m[i][2] : i \in 1..Len(m)}
IdLabelPair == <<ID_COLUMN_NAME, LABEL_COLUMN_NAME>>
HasIdLabelPair(m) == \E i \in 1..Len(m) : m[i] = IdLabelPair

\* The batch of the nodes table that the b-th insert_nodes call was given.
NodeBatchOf(b) == to_batches(nodes_table.data, chunk_size, b)
EdgeBatchOf(b) == to_batches(edges_table.data, chunk_size, b)
\* The records passed by the calls before call b.
RECURSIVE RowsBefore(_, _)
RowsBefore(calls, b) ==
    IF b <= 1 THEN 0 ELSE RowsBefore(calls, b - 1) + Len(calls[b - 1])

\* Two columns of a table with column set cols end under one name: two
\* columns renamed to the same target, or a column renamed to a column that
\* is there and stays there (it is no source of the mapping).
Collides(cols, m) ==
    \/ \E i, j \in 1..Len(m) :
          /\ i # j /\ m[i][1] \in cols /\ m[j][1] \in cols
          /\ m[i][2] = m[j][2] /\ m[i][2] \notin Sources(m)
    \/ \E i \in 1..Len(m) :
          /\ m[i][1] \in cols /\ m[i][2] \in cols
          /\ m[i][2] \notin Sources(m)

\* C1, the edges table: a colliding edges mapping ends in the duplicate
\* error and no row of the edges table is passed to insert_edges.
C1_EdgesDuplicateRejected ==
    Collides(KeySet(edges_table.data), edges_schema) =>
        /\ edge_calls = <<>>
        /\ NumRows(edges_table.data) > 0 => pc # "done"
        /\ (pc = "error" /\ eb > 0) => error = "DuplicateEdges"

\* C1, the nodes table: a colliding nodes mapping ends in the duplicate
\* error and no row of the nodes table is passed to insert_nodes.
C1_NodesDuplicateRejected ==
    (~nodes_table.is_none /\ Collides(KeySet(nodes_table.data), nodes_schema)) =>
        /\ node_calls = <<>>
        /\ NumRows(nodes_table.data) > 0 => pc \in {"nodes", "error"}
        /\ pc = "error" => error = "DuplicateNodes"

\* C1: for the nodes table and the edges table alike, a mapping that puts
\* two distinct columns under one target name fails with a duplicate-column
\* error and no row of that batch reaches insert_nodes / insert_edges.
C1_DuplicateColumnRejected ==
    C1_NodesDuplicateRejected /\ C1_EdgesDuplicateRejected

\* C2 as stated: with the identifier->label pair the records keep the
\* identifier, carry a label equal to it, every other pair's source column is
\* gone and its values are under the target; [id, name] with {id: label}
\* gives the columns [id, label].
C2_Original ==
    \A b \in 1..Len(node_calls) :
        LET batch == NodeBatchOf(b) IN
        (HasIdLabelPair(nodes_schema) /\ Has(batch, ID_COLUMN_NAME)) =>
            \A j \in 1..Len(node_calls[b]) :
                LET rec == node_calls[b][j] IN
                /\ Has(rec, ID_COLUMN_NAME)
                /\ Get(rec, ID_COLUMN_NAME) = Get(batch, ID_COLUMN_NAME)[j]
                /\ Has(rec, LABEL_COLUMN_NAME)
                /\ Get(rec, LABEL_COLUMN_NAME) = Get(rec, ID_COLUMN_NAME)
                /\ \A i \in 1..Len(nodes_schema) :
                      nodes_schema[i] # IdLabelPair =>
                          /\ ~Has(rec, nodes_schema[i][1])
                          /\ Has(batch, nodes_schema[i][1]) =>
                                /\ Has(rec, nodes_schema[i][2])
                                /\ Get(rec, nodes_schema[i][2])
                                     = Get(batch, nodes_schema[i][1])[j]
                /\ (KeyList(batch) = <<ID_COLUMN_NAME, "name">>
                        /\ nodes_schema = <<IdLabelPair>>)
                     => KeyList(rec) = <<ID_COLUMN_NAME, LABEL_COLUMN_NAME>>

\* C2, amended: when the nodes mapping has the identifier->label pair, no
\* target column of the mapping is also one of its source columns, and a
\* node batch has the identifier column, the records passed to insert_nodes
\* keep the identifier with its values and carry a label equal to it; every
\* other pair's source column that the batch has is gone and, unless the
\* target is the label column, its values are under the target; [id, name]
\* with {id: label} gives the columns [id, name, label].
C2_IdentifierCopiedToLabel ==
    \A b \in 1..Len(node_calls) :
        LET batch == NodeBatchOf(b) IN
        (/\ HasIdLabelPair(nodes_schema)
         /\ Sources(nodes_schema) \cap Targets(nodes_schema) = {}
         /\ Has(batch, ID_COLUMN_NAME)) =>
            \A j \in 1..Len(node_calls[b]) :
                LET rec == node_calls[b][j] IN
                /\ Has(rec, ID_COLUMN_NAME)
                /\ Get(rec, ID_COLUMN_NAME) = Get(batch, ID_COLUMN_NAME)[j]
                /\ Has(rec, LABEL_COLUMN_NAME)
                /\ Get(rec, LABEL_COLUMN_NAME) = Get(rec, ID_COLUMN_NAME)
                /\ \A i \in 1..Len(nodes_schema) :
                      (nodes_schema[i] # IdLabelPair
                         /\ Has(batch, nodes_schema[i][1])) =>
                          /\ ~Has(rec, nodes_schema[i][1])
                          /\ nodes_schema[i][2] # LABEL_COLUMN_NAME =>
                                /\ Has(rec, nodes_schema[i][2])
                                /\ Get(rec, nodes_schema[i][2])
                                     = Get(batch, nodes_schema[i][1])[j]
                /\ (KeyList(batch) = <<ID_COLUMN_NAME, "name">>
                        /\ nodes_schema = <<IdLabelPair>>)
                     => KeyList(rec) = <<ID_COLUMN_NAME, "name", LABEL_COLUMN_NAME>>

\* A node batch with the identifier->label pair and a second pair, whose
\* source the batch has, was passed to insert_nodes.
C2_Witness ==
    /\ Len(node_calls) > 0
    /\ nodes_schema = <<IdLabelPair, <<"name", "title">>>>
    /\ KeyList(nodes_table.data) = <<ID_COLUMN_NAME, "name">>
    /\ KeyList(node_calls[1][1]) = <<ID_COLUMN_NAME, LABEL_COLUMN_NAME, "title">>

AllNodeCallIds ==
    UNION {{Get(node_calls[b][j], ID_COLUMN_NAME) : j \in 1..Len(node_calls[b])} :
           b \in 1..Len(node_calls)}
NodeBatchCount ==
    IF nodes_table.is_none THEN 0 ELSE NumBatches(nodes_table.data, chunk_size)

C3_SeenSet ==
    /\ (pc = "nodes" /\ nb = 0) => added_node_ids = {}
    /\ AllNodeCallIds \subseteq added_node_ids
    /\ \A k \in 1..Len(edge_calls) :
          /\ Len(node_calls) = NodeBatchCount
          /\ AllNodeCallIds \subseteq edge_calls[k].existing_node_ids
          /\ \A j \in 1..(k - 1) :
                edge_calls[j].all_node_ids \subseteq edge_calls[k].existing_node_ids
          /\ Len(edge_calls[k].data) = Cardinality(BatchRows(edges_table.data, chunk_size, k))
          /\ edge_calls[k].all_node_ids \subseteq added_node_ids
    /\ edge_calls # <<>> => edge_calls[1].existing_node_ids = AllNodeCallIds

\* C3: the seen-set starts empty, only grows and is never reset: the set
\* given to the k-th insert_edges call holds every identifier of every node
\* batch (all inserted before the first edge batch) and everything
\* insert_edges returned for the batches before; every edge row is passed
\* whatever its endpoints, and what the store returns is in the set after.
C3_SeenSetThreaded ==
    []C3_SeenSet /\ [][added_node_ids \subseteq added_node_ids']_vars

\* The second edge batch was given a set holding node identifiers and an
\* endpoint that only the first edge batch had created.
C3_Witness ==
    /\ Len(edge_calls) = 2
    /\ Len(node_calls) > 0
    /\ edge_calls[1].all_node_ids # {}
    /\ edge_calls[1].all_node_ids \subseteq edge_calls[2].existing_node_ids
    /\ AllNodeCallIds # {}

DuplicateErrors == {"DuplicateNodes", "DuplicateEdges"}

C9_AtError ==
    /\ error \in DuplicateErrors => pc = "error"
    /\ error = "DuplicateNodes" => edge_calls = <<>>
    /\ error = "DuplicateEdges" =>
          /\ Len(node_calls) = NodeBatchCount
          /\ Len(edge_calls) = eb - 1

\* C9: a duplicate-column error aborts the insertion: no insert_nodes or
\* insert_edges call follows it, the batches inserted before it stay
\* inserted, an edges duplicate is raised after every node batch was
\* inserted and a nodes duplicate leaves no edge inserted.
C9_DuplicateAborts ==
    /\ []C9_AtError
    /\ [][(error \in DuplicateErrors \/ error' \in DuplicateErrors) =>
             (node_calls' = node_calls /\ edge_calls' = edge_calls)]_vars

\* The edges mapping raised its duplicate after two node batches went in.
C9_Witness ==
    /\ error = "DuplicateEdges"
    /\ pc = "error"
    /\ Len(node_calls) = 2

\* The records are the table rows in table order: record j of call b holds,
\* column by column, values of the row after those of the calls before.
RowsInOrder(calls, table) ==
    \A b \in 1..Len(calls) :
        \A c \in 1..Len(calls[b][1]) :
            \E col \in KeySet(table) :
                \A j \in 1..Len(calls[b]) :
                    calls[b][j][c][2] = Get(table, col)[RowsBefore(calls, b) + j]
RecordCount(calls) == RowsBefore(calls, Len(calls) + 1)
WellBatched(calls) ==
    \A b \in 1..Len(calls) :
        /\ Len(calls[b]) \in 1..chunk_size
        /\ \A j \in 1..Len(calls[b]) :
              /\ KeyList(calls[b][j]) = KeyList(calls[b][1])
              /\ \A c, e \in 1..Len(calls[b][j]) :
                    c # e => calls[b][j][c][1] # calls[b][j][e][1]
EdgeData == [k \in 1..Len(edge_calls) |-> edge_calls[k].data]

\* C10: a call that ends without error has passed every nodes row to
\* insert_nodes and every edges row to insert_edges exactly once, in table
\* order, in batches of at most chunk_size rows, each record with one value
\* per column of the mapped batch; without a nodes table insert_nodes is not
\* called and the first edge batch gets an empty seen-set; an empty table
\* makes no store call.
C10_EveryRowOnce ==
    pc = "done" =>
        /\ WellBatched(node_calls) /\ WellBatched(EdgeData)
        /\ RecordCount(EdgeData) = NumRows(edges_table.data)
        /\ RowsInOrder(EdgeData, edges_table.data)
        /\ \A k \in 1..Len(edge_calls) :
              KeyList(edge_calls[k].data[1]) =
                  KeyList(apply_edges_column_map(
                      EdgeBatchOf(k), edges_schema, 1).batch_dict)
        /\ nodes_table.is_none =>
              /\ node_calls = <<>>
              /\ edge_calls # <<>> => edge_calls[1].existing_node_ids = {}
        /\ ~nodes_table.is_none =>
              /\ RecordCount(node_calls) = NumRows(nodes_table.data)
              /\ RowsInOrder(node_calls, nodes_table.data)
              /\ \A b \in 1..Len(node_calls) :
                    KeyList(node_calls[b][1]) =
                        KeyList(apply_nodes_column_map(
                            NodeBatchOf(b), nodes_schema, 1).batch_dict)

\* A call over two node batches and two edge batches ended without error.
C10_Witness ==
    /\ pc = "done"
    /\ Len(node_calls) = 2
    /\ Len(edge_calls) = 2
    /\ nodes_schema # <<>>

====
